---- MODULE Spec2Model ----
(***************************************************************************)
(* Dynamical-decoupling passes of qiskit/transpiler/passes/                *)
(* dynamical_decoupling: CDDPass (cdd.py, cddpass.py), UDDPass (udd.py,    *)
(* uddpass.py), CPMGPass (cpmg.py, cpmgpass.py), XY4Pass (xy4.py,          *)
(* xy4pass.py), NCDDPass (ncddpass.py) and NUDDPass (nuddpass.py).         *)
(*                                                                         *)
(* A pass object is constructed from its arguments and then run on a       *)
(* scheduled circuit.  The circuit is the sequence of its operation nodes  *)
(* in the order of dag.topological_op_nodes(); run walks it once and       *)
(* appends to new_dag.  One step of the model is one call: __init__ or run.*)
(* run may be called again on the same object, limit times in all.         *)
(*                                                                         *)
(* Times given in seconds by the caller (gate_length, tau_step, dt) are    *)
(* whole numbers of a tick; circuit durations are whole numbers of dt,     *)
(* except for xy4.py which works in seconds throughout.  A calibrated      *)
(* gate length is a whole number of dt samples.                            *)
(***************************************************************************)
EXTENDS Integers, Sequences, FiniteSets, TLC

VARIABLES
    pass,      \* which class is instantiated, named by its source file
    args,      \* the constructor arguments
    self,      \* the fields of the pass object
    pc,        \* "new", "ready", "returned" or "raised"
    exception, \* the exception that was raised, or "none"
    calls,     \* the calls of run made on the object
    limit,     \* the calls of run the caller makes
    dag,       \* the input circuit of the run
    new_dag,   \* the output circuit
    cut,       \* cut[i] = Len(new_dag) after node i was handled
    plans      \* plans[i] = the locals count, parity, new_delay at node i

vars == <<pass, args, self, pc, exception, calls, limit, dag, new_dag, cut, plans>>

----------------------------------------------------------------------------
(* Bounds of the model *)

MaxOrder == 2        \* orders N of the passes that are run
MaxBuildOrder == 7   \* orders N given to build_sequence alone
MaxOps == 2          \* nodes of a circuit given to a single-lane pass
MaxCount == 2        \* idle durations reach MaxCount cycles and one sample
LongCount == 6       \* cycles in the long idle duration given to CPMG and UDD
MaxNestOps == 3      \* nodes of a circuit given to NCDDPass or NUDDPass
MaxNestOrder == 1    \* orders N of NCDDPass and NUDDPass
MaxNestDur == 4      \* idle durations k * k, k <= MaxNestDur, given to them
MaxCalls == 2        \* calls of run on one object
MaxAgainOps == 2     \* nodes of a circuit given to a call after the first
MaxGapOrder == 4     \* orders N of UDDPass when its gap schedule is examined
MaxGapTauC == 24     \* and the cycle durations tau_c given to it then
dt == 2              \* sample duration dt_in_sec, in ticks

(* Program constants *)

XY4TauC == 1461          \* xy4pass.py: tau_c
DefaultTauC == 2000      \* cpmg.py, cpmgpass.py, uddpass.py, nuddpass.py
UDDTauCPerOrder == 1000  \* udd.py: 1000 * N
DefaultTauStep == 10     \* cdd.py, cddpass.py, xy4.py: 10 ns
RecursionLimit == 1000   \* the depth at which Python raises RecursionError

Lanes == {0, 1}
None == 0                \* an argument left at None

Passes == {"cdd", "cddpass", "udd", "uddpass", "cpmg", "cpmgpass",
           "xy4", "xy4pass", "ncddpass", "nuddpass"}
NestedPasses == {"ncddpass", "nuddpass"}

----------------------------------------------------------------------------
(* Python arithmetic *)

Sign(x) == IF x > 0 THEN 1 ELSE IF x < 0 THEN -1 ELSE 0

\* a // b and a % b for b > 0
FloorDiv(a, b) == a \div b
Mod(a, b) == a % b

\* int(a / b): true division, then truncation towards zero
IntDiv(a, b) == IF a >= 0 THEN a \div b ELSE -((-a) \div b)

\* round(a / b) for b > 0: to the nearest integer, a tie to the even one
RoundDiv(a, b) ==
    LET q == a \div b
        r == a % b
    IN  IF 2 * r < b THEN q
        ELSE IF 2 * r > b THEN q + 1
        ELSE IF q % 2 = 0 THEN q ELSE q + 1

\* round(T * v) for the double v, given as the nine decimals
\* (e[1] * 10^6 + e[2] * 10^3 + e[3]) / 10^9 and the sign e[4] of the rest of
\* v; the product is taken in three limbs to stay within 32 bits, and agrees
\* with Python's round(T * v) for every |T| <= 8000
RoundMul(T, e) ==
    LET p3 == T * e[3]
        p2 == T * e[2] + (p3 \div 1000)
        p1 == T * e[1] + (p2 \div 1000)
        q == p1 \div 1000
        f == (p1 % 1000) * 1000000 + (p2 % 1000) * 1000 + (p3 % 1000)
        s == e[4] * Sign(T)
    IN  IF f < 500000000 THEN q
        ELSE IF f > 500000000 THEN q + 1
        ELSE IF s > 0 THEN q + 1
        ELSE IF s < 0 THEN q
        ELSE IF q % 2 = 0 THEN q ELSE q + 1

RECURSIVE SumFrom(_, _)
SumFrom(s, i) == IF i > Len(s) THEN 0 ELSE s[i] + SumFrom(s, i + 1)

SumSeq(s) == SumFrom(s, 1)

RECURSIVE MinSeq(_)
MinSeq(s) == IF Len(s) = 1 THEN s[1]
             ELSE LET m == MinSeq(Tail(s)) IN IF s[1] <= m THEN s[1] ELSE m

RECURSIVE Rep(_, _)
Rep(n, s) == IF n <= 0 THEN <<>> ELSE s \o Rep(n - 1, s)

Range(s) == {s[i] : i \in DOMAIN s}

\* sin(pi * i / (2 * (N + 1))) ** 2 for i = 0..N+1, as the doubles Python
\* computes, row N + 1 for order N
SinSqTable ==
  << << <<0, 0, 0, 0>>, <<1000, 0, 0, 0>> >>,
     << <<0, 0, 0, 0>>, <<500, 0, 0, -1>>, <<1000, 0, 0, 0>> >>,
     << <<0, 0, 0, 0>>, <<250, 0, 0, -1>>, <<750, 0, 0, -1>>,
        <<1000, 0, 0, 0>> >>,
     << <<0, 0, 0, 0>>, <<146, 446, 609, 1>>, <<500, 0, 0, -1>>,
        <<853, 553, 391, -1>>, <<1000, 0, 0, 0>> >>,
     << <<0, 0, 0, 0>>, <<95, 491, 503, -1>>, <<345, 491, 503, -1>>,
        <<654, 508, 497, 1>>, <<904, 508, 497, 1>>, <<1000, 0, 0, 0>> >>,
     << <<0, 0, 0, 0>>, <<66, 987, 298, 1>>, <<250, 0, 0, -1>>,
        <<500, 0, 0, -1>>, <<750, 0, 0, -1>>, <<933, 12, 702, -1>>,
        <<1000, 0, 0, 0>> >>,
     << <<0, 0, 0, 0>>, <<49, 515, 566, 1>>, <<188, 255, 99, 1>>,
        <<388, 739, 533, 1>>, <<611, 260, 467, -1>>, <<811, 744, 901, -1>>,
        <<950, 484, 434, -1>>, <<1000, 0, 0, 0>> >> >>

\* t_i[i] - t_i[i-1] of the unscaled sin ** 2 values (nuddpass.py), as doubles
TauStepFractionTable ==
  << << <<1000, 0, 0, 0>> >>,
     << <<500, 0, 0, -1>>, <<500, 0, 0, 1>> >>,
     << <<250, 0, 0, -1>>, <<500, 0, 0, -1>>, <<250, 0, 0, 1>> >>,
     << <<146, 446, 609, 1>>, <<353, 553, 391, -1>>, <<353, 553, 391, -1>>,
        <<146, 446, 609, 1>> >>,
     << <<95, 491, 503, -1>>, <<250, 0, 0, 0>>, <<309, 16, 994, 1>>,
        <<250, 0, 0, -1>>, <<95, 491, 503, -1>> >>,
     << <<66, 987, 298, 1>>, <<183, 12, 702, -1>>, <<250, 0, 0, -1>>,
        <<250, 0, 0, 0>>, <<183, 12, 702, -1>>, <<66, 987, 298, 1>> >>,
     << <<49, 515, 566, 1>>, <<138, 739, 533, 1>>, <<200, 484, 434, -1>>,
        <<222, 520, 934, -1>>, <<200, 484, 434, -1>>, <<138, 739, 533, 1>>,
        <<49, 515, 566, 1>> >> >>

----------------------------------------------------------------------------
(* Operations of a circuit *)

\* DAGCircuit.apply_operation_back(op, qargs, cargs, condition)
Op(name, qargs, cargs, condition, duration, half) ==
    [name |-> name, qargs |-> qargs, cargs |-> cargs, condition |-> condition,
     duration |-> duration, half |-> half]

\* new_dag.apply_operation_back(Delay(duration), qargs=qargs)
Delay(duration, qargs) == Op("delay", qargs, <<>>, "none", duration, 0)

\* Delay(x / 2, unit='s'): a float, x / 2 = x \div 2 + (x % 2) / 2
HalfDelay(x, qargs) == Op("delay", qargs, <<>>, "none", x \div 2, x % 2)

\* new_dag.apply_operation_back(gate, qargs=qargs)
Pulse(name, qargs) == Op(name, qargs, <<>>, "none", 0, 0)

IsDelay(op) == op.name = "delay"

XGate == "x"
YGate == "y"

\* Unroller(basis).run(dag of one X or Y gate): the basis of the backend
\* holds u3, and the gate is one u3 node
Unroll(gate) == IF gate = XGate THEN "u3(pi,0,pi)" ELSE "u3(pi,pi/2,pi/2)"

PulseNames == {XGate, YGate, Unroll(XGate), Unroll(YGate)}

\* the operations other than Delay that the input circuits hold
InputGates ==
    { Op("h", <<0>>, <<>>, "none", 0, 0),
      Op("cx", <<0, 1>>, <<>>, "none", 0, 0),
      Op("measure", <<1>>, <<0>>, "c0 == 1", 0, 0) }

\* the node before node i on wire q, 0 for the input node of the wire
Predecessor(d, i, q) ==
    LET before == {j \in 1..(i - 1) : q \in Range(d[j].qargs)}
    IN  IF before = {} THEN 0 ELSE CHOOSE j \in before : \A k \in before : k <= j

\* the node after node i on wire q, 0 for the output node of the wire
Successor(d, i, q) ==
    LET after == {j \in (i + 1)..Len(d) : q \in Range(d[j].qargs)}
    IN  IF after = {} THEN 0 ELSE CHOOSE j \in after : \A k \in after : j <= k

RECURSIVE AncestorOps(_, _)
AncestorOps(d, i) ==
    UNION { LET p == Predecessor(d, i, q)
            IN  IF p = 0 THEN {} ELSE {p} \cup AncestorOps(d, p)
            : q \in Range(d[i].qargs) }

\* len(dag.ancestors(node)): the operation nodes before the node and the
\* input nodes of the qubit wires they and the node lie on
Ancestors(d, i) ==
    LET ops == AncestorOps(d, i)
        wires == UNION {Range(d[j].qargs) : j \in ops \cup {i}}
    IN  Cardinality(ops) + Cardinality(wires)

----------------------------------------------------------------------------
(* Construction *)

RECURSIVE build_sequence(_)
BuildSequenceSwapped(N) ==
    IF N = 1 THEN <<XGate, YGate, XGate, YGate>>
    ELSE LET s == build_sequence(N - 1)
         IN  <<XGate>> \o s \o <<YGate>> \o s \o <<YGate>> \o s \o <<XGate>> \o s

\* build_sequence(N) of cdd.py, cddpass.py and ncddpass.py, for N >= 1
build_sequence(N) ==
    IF N = 1 THEN <<XGate, YGate, XGate, YGate>>
    ELSE LET s == build_sequence(N - 1)
         IN  <<XGate>> \o s \o <<YGate>> \o s \o <<XGate>> \o s \o <<YGate>> \o s

\* whether the nested calls build_sequence(N), build_sequence(N - 1), ...
\* come to the case N == 1 while the stack is within the recursion limit:
\* the call k frames down has the argument N - k
ReachesBase(N) == \E k \in 0..(RecursionLimit - 1) : N - k = 1

\* build_sequence(N) has no case for N < 1: the recursion goes on until
\* Python raises RecursionError
BuildRaises(N) == ~ReachesBase(N)

NoSelf ==
    [N |-> 0, tau_step_dt |-> 0, tau_c |-> 0, cdd_sequence |-> <<>>,
     tau_cs |-> [q \in Lanes |-> 0], gate_length_totals |-> [q \in Lanes |-> 0],
     ncdd |-> [q \in Lanes |-> <<>>], doable |-> TRUE]

\* the gate_length of one X and one Y gate after unrolling, on qubit q
GateDuration(a, q) == a.gate_length[q] + a.gate_length[q]

\* cdd.py: self.tau_cs[qubit]
CddTauC(a, seq, q) ==
    (Len(seq) \div 2) *
        RoundDiv(2 * IntDiv(a.tau_step, dt) * dt + GateDuration(a, q), dt)

CddInit(a) ==
    LET seq == build_sequence(a.N)
    IN  [NoSelf EXCEPT !.N = a.N,
                       !.tau_step_dt = IntDiv(a.tau_step, dt),
                       !.cdd_sequence = seq,
                       !.tau_cs = [q \in Lanes |-> CddTauC(a, seq, q)]]

\* cddpass.py: self.approx_tau_cs[qubit]
CddPassTauC(a, seq, q) ==
    IF a.tau_c # None
    THEN (Len(seq) * a.tau_c) \div Len(seq)
    ELSE Len(seq) * RoundDiv(IntDiv(a.tau_step, dt) * dt + a.gate_length[q], dt)

\* cddpass.py: tau_c and tau_step both given
CddPassRaises(a) == a.tau_c # None /\ a.tau_step # DefaultTauStep

CddPassInit(a) ==
    LET seq == build_sequence(a.N)
    IN  [NoSelf EXCEPT !.N = a.N,
                       !.tau_step_dt = IntDiv(a.tau_step, dt),
                       !.tau_c = a.tau_c,
                       !.cdd_sequence = seq,
                       !.tau_cs = [q \in Lanes |-> CddPassTauC(a, seq, q)]]

\* udd.py: self.tau_c = 1000 * self.N if not tau_c else tau_c
UddInit(a) ==
    [NoSelf EXCEPT !.N = a.N,
                   !.tau_c = IF a.tau_c = None THEN UDDTauCPerOrder * a.N
                             ELSE a.tau_c]

\* uddpass.py, nuddpass.py: self.tau_c = 2000 if not tau_c else tau_c
UddPassInit(a) ==
    [NoSelf EXCEPT !.N = a.N,
                   !.tau_c = IF a.tau_c = None THEN DefaultTauC ELSE a.tau_c]

\* cpmg.py, cpmgpass.py: self.tau_c = 2000 if not tau_c else tau_c
CpmgInit(a) ==
    [NoSelf EXCEPT !.tau_c = IF a.tau_c = None THEN DefaultTauC ELSE a.tau_c]

\* xy4.py: self.tau_cs[qubit], in seconds
XY4TauCs(a, q) == 4 * a.tau_step + 2 * GateDuration(a, q)

XY4Init(a) ==
    [NoSelf EXCEPT !.tau_step_dt = a.tau_step,
                   !.tau_cs = [q \in Lanes |-> XY4TauCs(a, q)]]

\* xy4pass.py keeps the backend properties and dt only
XY4PassInit(a) == NoSelf

\* ncddpass.py: self.gate_length_totals[qubit]
NcddGateLengthTotal(a, seq, q) == Len(seq) * RoundDiv(a.gate_length[q], dt)

NcddInit(a) ==
    LET seq == build_sequence(a.N)
    IN  [NoSelf EXCEPT !.N = a.N,
                       !.cdd_sequence = seq,
                       !.gate_length_totals =
                           [q \in Lanes |-> NcddGateLengthTotal(a, seq, q)]]

\* nuddpass.py: self.gate_length_totals[qubit]
NuddGateLengthTotal(a, q) == a.N * RoundDiv(a.gate_length[q], dt)

NuddInit(a) ==
    [UddPassInit(a) EXCEPT !.gate_length_totals =
                               [q \in Lanes |-> NuddGateLengthTotal(a, q)]]

\* whether __init__ raises
InitRaises(p, a) ==
    CASE p = "cdd" -> BuildRaises(a.N)
      [] p = "cddpass" -> CddPassRaises(a) \/ BuildRaises(a.N)
      [] p = "ncddpass" -> BuildRaises(a.N)
      [] OTHER -> FALSE

\* the exception __init__ raises: cddpass.py names TranspilerError without
\* importing it, and build_sequence runs into the recursion limit
InitError(p, a) ==
    IF p = "cddpass" /\ CddPassRaises(a) THEN "NameError" ELSE "RecursionError"

\* the object __init__ leaves
InitSelf(p, a) ==
    CASE p = "cdd" -> CddInit(a)
      [] p = "cddpass" -> CddPassInit(a)
      [] p = "udd" -> UddInit(a)
      [] p = "uddpass" -> UddPassInit(a)
      [] p \in {"cpmg", "cpmgpass"} -> CpmgInit(a)
      [] p = "xy4" -> XY4Init(a)
      [] p = "xy4pass" -> XY4PassInit(a)
      [] p = "ncddpass" -> NcddInit(a)
      [] OTHER -> NuddInit(a)

----------------------------------------------------------------------------
(* run: what replaces one Delay node *)

NoPlan == [count |-> 0, parity |-> 0, new_delay |-> 0, remainder |-> 0]

\* the locals of run at Delay node i
PlanAt(pl, i) ==
    [node |-> i, count |-> pl.count, parity |-> pl.parity,
     new_delay |-> pl.new_delay, remainder |-> pl.remainder]

Result(ops, pl, raised) == [ops |-> ops, plan |-> pl, raised |-> raised]

\* the Delay is passed through: Delay(delay_duration) on node.qargs
Kept(node) == Result(<<Delay(node.duration, node.qargs)>>, NoPlan, FALSE)

OnlyFirst(tau_c, d, i) == Ancestors(d, i) <= 1

\* the condition of cdd.py, udd.py, cpmg.py, cpmgpass.py, cddpass.py, xy4.py:
\* tau_c > delay_duration or len(dag.ancestors(node)) <= 1
TooShortOrFirst(tau_c, d, i) == tau_c > d[i].duration \/ Ancestors(d, i) <= 1

CddPlanTruncated(s, tau_c, delay_duration) ==
    LET count == FloorDiv(delay_duration, tau_c)
        x == delay_duration - count * tau_c + s.tau_step_dt
    IN  [count |-> count, parity |-> 0, new_delay |-> FloorDiv(x, 2),
         remainder |-> 0]

\* cdd.py: count, parity, new_delay
CddPlan(s, tau_c, delay_duration) ==
    LET count == FloorDiv(delay_duration, tau_c)
        x == delay_duration - count * tau_c + s.tau_step_dt
    IN  [count |-> count, parity |-> Mod(x, 2), new_delay |-> FloorDiv(x, 2),
         remainder |-> 0]

CddExpandParityFirst(s, node, pl) ==
    LET L == Len(s.cdd_sequence)
        M == pl.count * L
        gate(k) == s.cdd_sequence[((k - 1) % L) + 1]
        lead == IF pl.new_delay # 0 \/ pl.parity # 0
                THEN <<Delay(pl.new_delay + pl.parity, node.qargs)>> ELSE <<>>
        body == [k \in 1..(2 * M - 1) |->
                    IF k % 2 = 1
                    THEN Pulse(Unroll(gate((k + 1) \div 2)), node.qargs)
                    ELSE Delay(s.tau_step_dt, node.qargs)]
        trail == IF pl.new_delay # 0
                 THEN <<Delay(pl.new_delay, node.qargs)>> ELSE <<>>
    IN  lead \o body \o trail

\* cdd.py: the operations run puts in place of an expanded Delay
CddExpand(s, node, pl) ==
    LET L == Len(s.cdd_sequence)
        M == pl.count * L
        gate(k) == s.cdd_sequence[((k - 1) % L) + 1]
        lead == IF pl.new_delay # 0
                THEN <<Delay(pl.new_delay, node.qargs)>> ELSE <<>>
        body == [k \in 1..(2 * M - 1) |->
                    IF k % 2 = 1
                    THEN Pulse(Unroll(gate((k + 1) \div 2)), node.qargs)
                    ELSE Delay(s.tau_step_dt, node.qargs)]
        trail == IF pl.new_delay # 0 \/ pl.parity # 0
                 THEN <<Delay(pl.new_delay + pl.parity, node.qargs)>> ELSE <<>>
    IN  lead \o body \o trail

CddRewrite(s, d, i) ==
    LET node == d[i]
        tau_c == s.tau_cs[node.qargs[1]]
        pl == CddPlan(s, tau_c, node.duration)
    IN  IF TooShortOrFirst(tau_c, d, i) THEN Kept(node)
        ELSE Result(CddExpand(s, node, pl), pl, FALSE)

\* cddpass.py: the operations run puts in place of an expanded Delay
CddPassExpand(s, node, pl) ==
    LET L == Len(s.cdd_sequence)
        M == pl.count * L
        gate(k) == s.cdd_sequence[((k - 1) % L) + 1]
        body == [k \in 1..(2 * M) |->
                    IF k % 2 = 1
                    THEN Delay(s.tau_step_dt, node.qargs)
                    ELSE Pulse(gate(k \div 2), node.qargs)]
    IN  <<Delay(pl.new_delay - s.tau_step_dt, node.qargs)>> \o body
        \o <<Delay(pl.new_delay + pl.parity, node.qargs)>>

CddPassRewrite(s, d, i) ==
    LET node == d[i]
        approx_tau_c == s.tau_cs[node.qargs[1]]
        pl == CddPlan(s, approx_tau_c, node.duration)
    IN  IF TooShortOrFirst(approx_tau_c, d, i) THEN Kept(node)
        ELSE Result(CddPassExpand(s, node, pl), pl, FALSE)

\* udd.py: tau_step_totals[qubit]
UddTauStepTotal(s, a, q) == s.tau_c - FloorDiv(s.N * a.gate_length[q], dt)

\* uddpass.py: tau_step_totals[qubit]
UddPassTauStepTotal(s, a, q) == s.tau_c - s.N * RoundDiv(a.gate_length[q], dt)

\* udd.py, uddpass.py: t_i[i], i = 0..N+1
UddBreakpoint(N, total, i) == RoundMul(total, SinSqTable[N + 1][i + 1])

UddTauStepsUniform(N, total) == [i \in 1..(N + 1) |-> RoundDiv(total, N + 1)]

\* udd.py, uddpass.py: tau_steps_dict[qubit]
UddTauSteps(N, total) ==
    [i \in 1..(N + 1) |-> UddBreakpoint(N, total, i) - UddBreakpoint(N, total, i - 1)]

UddPlanOneCycle(tau_c, udd_duration, tau_steps, delay_duration) ==
    LET count == 1
        remainder == udd_duration - SumSeq(tau_steps)
        x == delay_duration - count * tau_c + count * remainder
    IN  [count |-> count, parity |-> Mod(x, 2), new_delay |-> IntDiv(x, 2),
         remainder |-> remainder]

\* udd.py, uddpass.py: count, remainder, parity, new_delay
UddPlan(tau_c, udd_duration, tau_steps, delay_duration) ==
    LET count == FloorDiv(delay_duration, tau_c)
        remainder == udd_duration - SumSeq(tau_steps)
        x == delay_duration - count * tau_c + count * remainder
    IN  [count |-> count, parity |-> Mod(x, 2), new_delay |-> IntDiv(x, 2),
         remainder |-> remainder]

\* one cycle: Delay(tau_steps[0]), then a Y pulse and a Delay per further step
UddCycle(tau_steps, pulse, qargs) ==
    [k \in 1..(2 * Len(tau_steps) - 1) |->
        IF k % 2 = 1 THEN Delay(tau_steps[(k + 1) \div 2], qargs)
        ELSE Pulse(pulse, qargs)]

UddExpandSymmetric(tau_steps, node, pl) ==
    <<Delay(pl.new_delay, node.qargs)>>
    \o Rep(pl.count, UddCycle(tau_steps, Unroll(YGate), node.qargs))
    \o <<Delay(pl.new_delay, node.qargs)>>

\* udd.py: the operations run puts in place of an expanded Delay
UddExpand(tau_steps, node, pl) ==
    LET lead == IF pl.new_delay # 0
                THEN <<Delay(pl.new_delay, node.qargs)>> ELSE <<>>
        trail == IF pl.new_delay # 0 \/ pl.parity # 0
                 THEN <<Delay(pl.new_delay + pl.parity, node.qargs)>> ELSE <<>>
    IN  lead \o Rep(pl.count, UddCycle(tau_steps, Unroll(YGate), node.qargs))
        \o trail

UddRewrite(s, a, d, i) ==
    LET node == d[i]
        udd_duration == UddTauStepTotal(s, a, node.qargs[1])
        tau_steps == UddTauSteps(s.N, udd_duration)
        pl == UddPlan(s.tau_c, udd_duration, tau_steps, node.duration)
    IN  IF TooShortOrFirst(s.tau_c, d, i) THEN Kept(node)
        ELSE Result(UddExpand(tau_steps, node, pl), pl, FALSE)

\* uddpass.py: the operations run puts in place of an expanded Delay
UddPassExpand(tau_steps, node, pl) ==
    <<Delay(pl.new_delay, node.qargs)>>
    \o Rep(pl.count, UddCycle(tau_steps, YGate, node.qargs))
    \o <<Delay(pl.new_delay + pl.parity, node.qargs)>>

\* uddpass.py expands whenever self.tau_c <= delay_duration
UddPassRewrite(s, a, d, i) ==
    LET node == d[i]
        udd_duration == UddPassTauStepTotal(s, a, node.qargs[1])
        tau_steps == UddTauSteps(s.N, udd_duration)
        pl == UddPlan(s.tau_c, udd_duration, tau_steps, node.duration)
    IN  IF s.tau_c <= node.duration
        THEN Result(UddPassExpand(tau_steps, node, pl), pl, FALSE)
        ELSE Kept(node)

CpmgTauStepTotalOnePulse(s, a, q) == s.tau_c - FloorDiv(a.gate_length[q], dt)

\* cpmg.py, cpmgpass.py: tau_step_totals[qubit]
CpmgTauStepTotal(s, a, q) == s.tau_c - FloorDiv(2 * a.gate_length[q], dt)

CpmgPlanNoRemainder(tau_c, tau_step_total, delay_duration) ==
    LET count == FloorDiv(delay_duration, tau_c)
        x == delay_duration - count * tau_c
    IN  [count |-> count, parity |-> Mod(x, 2), new_delay |-> FloorDiv(x, 2),
         remainder |-> 0]

\* cpmg.py, cpmgpass.py: count, remainder, parity, new_delay
CpmgPlan(tau_c, tau_step_total, delay_duration) ==
    LET count == FloorDiv(delay_duration, tau_c)
        remainder == tau_step_total - 2 * FloorDiv(tau_step_total, 4)
                         - FloorDiv(tau_step_total, 2)
        x == delay_duration - count * (tau_c - remainder)
    IN  [count |-> count, parity |-> Mod(x, 2), new_delay |-> FloorDiv(x, 2),
         remainder |-> remainder]

\* cpmgpass.py: the operations run puts in place of an expanded Delay
CpmgPassExpand(tau_step_total, node, pl) ==
    LET cycle == << Delay(FloorDiv(tau_step_total, 4), node.qargs),
                    Pulse(YGate, node.qargs),
                    Delay(FloorDiv(tau_step_total, 2), node.qargs),
                    Pulse(YGate, node.qargs),
                    Delay(FloorDiv(tau_step_total, 4), node.qargs) >>
    IN  <<Delay(pl.new_delay, node.qargs)>> \o Rep(pl.count, cycle)
        \o <<Delay(pl.new_delay + pl.parity, node.qargs)>>

CpmgPassRewrite(s, a, d, i) ==
    LET node == d[i]
        tau_step_total == CpmgTauStepTotal(s, a, node.qargs[1])
        pl == CpmgPlan(s.tau_c, tau_step_total, node.duration)
    IN  IF TooShortOrFirst(s.tau_c, d, i) THEN Kept(node)
        ELSE Result(CpmgPassExpand(tau_step_total, node, pl), pl, FALSE)

\* cpmg.py: the two Delays applied before self.ygate_unroll is read; the
\* attribute is never set (run binds the local ygate_unroll): AttributeError
CpmgExpand(tau_step_total, node, pl) ==
    << Delay(pl.new_delay, node.qargs),
       Delay(FloorDiv(tau_step_total, 4), node.qargs) >>

CpmgRewrite(s, a, d, i) ==
    LET node == d[i]
        tau_step_total == CpmgTauStepTotal(s, a, node.qargs[1])
        pl == CpmgPlan(s.tau_c, tau_step_total, node.duration)
    IN  IF TooShortOrFirst(s.tau_c, d, i) THEN Kept(node)
        ELSE Result(CpmgExpand(tau_step_total, node, pl), pl, TRUE)

\* xy4pass.py: xy4_durations[qubit]
XY4Duration(a, q) == XY4TauC - RoundDiv(4 * a.gate_length[q], dt)

\* xy4pass.py: count, error, parity, new_delay
XY4PassPlan(xy4_duration, delay_duration) ==
    LET count == FloorDiv(delay_duration, XY4TauC)
        error == xy4_duration - 4 * FloorDiv(xy4_duration, 4)
        dd_delay == FloorDiv(xy4_duration, 4)
        x == delay_duration - count * XY4TauC + error + dd_delay
    IN  [count |-> count, parity |-> Mod(x, 2), new_delay |-> IntDiv(x, 2),
         remainder |-> error]

\* xy4pass.py: the operations run puts in place of an expanded Delay
XY4PassExpand(xy4_duration, node, pl) ==
    LET dd_delay == FloorDiv(xy4_duration, 4)
        cycle == << Delay(dd_delay, node.qargs), Pulse(XGate, node.qargs),
                    Delay(dd_delay, node.qargs), Pulse(YGate, node.qargs),
                    Delay(dd_delay, node.qargs), Pulse(XGate, node.qargs),
                    Delay(dd_delay, node.qargs), Pulse(YGate, node.qargs) >>
    IN  <<Delay(pl.new_delay - dd_delay, node.qargs)>> \o Rep(pl.count, cycle)
        \o <<Delay(pl.new_delay + pl.parity, node.qargs)>>

\* xy4pass.py expands whenever tau_c <= delay_duration
XY4PassRewrite(a, d, i) ==
    LET node == d[i]
        xy4_duration == XY4Duration(a, node.qargs[1])
        pl == XY4PassPlan(xy4_duration, node.duration)
    IN  IF XY4TauC <= node.duration
        THEN Result(XY4PassExpand(xy4_duration, node, pl), pl, FALSE)
        ELSE Kept(node)

\* xy4.py: count and new_delay = x / 2, a float: new_delay + parity / 2
XY4Plan(s, tau_c, delay_duration) ==
    LET count == FloorDiv(delay_duration, tau_c)
        x == delay_duration - count * tau_c + s.tau_step_dt
    IN  [count |-> count, parity |-> x % 2, new_delay |-> x \div 2,
         remainder |-> 0]

\* xy4.py: the operations run puts in place of an expanded Delay
XY4Expand(s, node, pl) ==
    LET gap == Delay(s.tau_step_dt, node.qargs)
        cycle == << Pulse(Unroll(XGate), node.qargs), gap,
                    Pulse(Unroll(YGate), node.qargs), gap,
                    Pulse(Unroll(XGate), node.qargs), gap,
                    Pulse(Unroll(YGate), node.qargs) >>
        outer == HalfDelay(2 * pl.new_delay + pl.parity, node.qargs)
    IN  <<outer>> \o cycle \o Rep(pl.count - 1, <<gap>> \o cycle) \o <<outer>>

XY4Rewrite(s, d, i) ==
    LET node == d[i]
        tau_c == s.tau_cs[node.qargs[1]]
        pl == XY4Plan(s, tau_c, node.duration)
    IN  IF TooShortOrFirst(tau_c, d, i)
        THEN Kept(node)
        ELSE Result(XY4Expand(s, node, pl), pl, FALSE)

----------------------------------------------------------------------------
(* NCDDPass and NUDDPass *)

\* isinstance(node.op, Delay) and len(dag.ancestors(node)) > 1 and
\* isinstance(predecessors[-1].op, CXGate)
Qualifies(d, i) ==
    /\ IsDelay(d[i])
    /\ Ancestors(d, i) > 1
    /\ d[Predecessor(d, i, d[i].qargs[1])].name = "cx"

\* the duration the first loop of run records for a qualifying node
ScanDuration(d, i) ==
    LET n == Successor(d, i, d[i].qargs[1])
    IN  IF n # 0 /\ IsDelay(d[n]) THEN d[i].duration + d[n].duration
        ELSE d[i].duration

\* the qualifying nodes in the order of the first loop of run
QualifyingNodes(d) ==
    LET Test(i) == Qualifies(d, i)
    IN  SelectSeq([i \in 1..Len(d) |-> i], Test)

\* ncddpass.py: find_cdd(qubit, duration), the gates without their qargs
find_cdd(s, qubit, duration) ==
    LET L == Len(s.cdd_sequence)
        tau_step == FloorDiv(duration - s.gate_length_totals[qubit], L)
    IN  [k \in 1..(2 * L + 1) |->
            IF k % 2 = 1 THEN Delay(tau_step, <<>>)
            ELSE Pulse(Unroll(s.cdd_sequence[k \div 2]), <<>>)]

\* nuddpass.py: find_udd(qubit, duration), the gates without their qargs
find_udd(s, qubit, duration) ==
    LET tau_steps == [i \in 1..(s.N + 1) |->
                         RoundMul(duration - s.gate_length_totals[qubit],
                                  TauStepFractionTable[s.N + 1][i])]
    IN  UddCycle(tau_steps, Unroll(YGate), <<>>)

\* find_cdd or find_udd, as add_ncdd or add_nudd calls it
find(p, s, qubit, duration) ==
    IF p = "ncddpass" THEN find_cdd(s, qubit, duration)
    ELSE find_udd(s, qubit, duration)

RECURSIVE Flatten(_, _)
Flatten(seqs, i) == IF i > Len(seqs) THEN <<>> ELSE seqs[i] \o Flatten(seqs, i + 1)

\* add_ncdd(qubits, duration) and add_nudd(qubits, duration): the appends
\* self.ncdd[qubit].append(gate) the call makes, in order, as <<qubit, gate>>;
\* self.nudd of nuddpass.py is the field ncdd here
RECURSIVE add_ncdd(_, _, _, _)
add_ncdd(p, s, qubits, duration) ==
    LET sequence == find(p, s, qubits[1], duration)
        each(k) ==
            <<<<qubits[1], sequence[k]>>>> \o
            (IF IsDelay(sequence[k]) /\ Len(qubits) > 1
             THEN add_ncdd(p, s, Tail(qubits), sequence[k].duration)
             ELSE <<>>)
    IN  Flatten([k \in 1..Len(sequence) |-> each(k)], 1)

\* whether add_ncdd(qubits, duration) sets self.doable = False:
\* duration - self.gate_length_totals[qubit] < 0 in one of its find calls
RECURSIVE Undoable(_, _, _, _)
Undoable(p, s, qubits, duration) ==
    \/ duration - s.gate_length_totals[qubits[1]] < 0
    \/ /\ Len(qubits) > 1
       /\ \E x \in {g.duration : g \in {h \in Range(find(p, s, qubits[1], duration)) :
                                         IsDelay(h)}} :
             Undoable(p, s, Tail(qubits), x)

\* min(durations) of an empty list: ValueError
ScanRaises(d) == QualifyingNodes(d) = <<>>

ScanFirstLevel(p, s, d) ==
    LET nodes == QualifyingNodes(d)
        durations == [k \in 1..Len(nodes) |-> ScanDuration(d, nodes[k])]
        duration_qubits == [k \in 1..Len(nodes) |-> d[nodes[k]].qargs[1]]
        added == add_ncdd(p, s, duration_qubits, MinSeq(durations))
    IN  [s EXCEPT !.ncdd = [q \in Lanes |->
                               LET on == SelectSeq(added, LAMBDA e : e[1] = q)
                               IN  s.ncdd[q] \o [k \in 1..Len(on) |-> on[k][2]]],
                  !.doable = IF MinSeq(durations)
                                    - s.gate_length_totals[duration_qubits[1]] < 0
                             THEN FALSE ELSE @]

\* the object after the first loop of run and the call of add_ncdd
Scan(p, s, d) ==
    LET nodes == QualifyingNodes(d)
        durations == [k \in 1..Len(nodes) |-> ScanDuration(d, nodes[k])]
        duration_qubits == [k \in 1..Len(nodes) |-> d[nodes[k]].qargs[1]]
        added == add_ncdd(p, s, duration_qubits, MinSeq(durations))
    IN  [s EXCEPT !.ncdd = [q \in Lanes |->
                               LET on == SelectSeq(added, LAMBDA e : e[1] = q)
                               IN  s.ncdd[q] \o [k \in 1..Len(on) |-> on[k][2]]],
                  !.doable = IF Undoable(p, s, duration_qubits, MinSeq(durations))
                             THEN FALSE ELSE @]

NestedRewriteAfterAny(s, d, i) ==
    LET node == d[i]
        q == node.qargs[1]
    IN  IF Ancestors(d, i) <= 1 THEN Result(<<node>>, NoPlan, FALSE)
        ELSE IF s.doable
        THEN Result([k \in 1..Len(s.ncdd[q]) |->
                        [s.ncdd[q][k] EXCEPT !.qargs = node.qargs]],
                    NoPlan, FALSE)
        ELSE Result(<<node>>, NoPlan, FALSE)

\* the second loop of run, at a Delay node
NestedRewrite(s, d, i) ==
    LET node == d[i]
        q == node.qargs[1]
    IN  IF Ancestors(d, i) <= 1 THEN Result(<<node>>, NoPlan, FALSE)
        ELSE IF d[Predecessor(d, i, q)].name = "cx" /\ s.doable
        THEN Result([k \in 1..Len(s.ncdd[q]) |->
                        [s.ncdd[q][k] EXCEPT !.qargs = node.qargs]],
                    NoPlan, FALSE)
        ELSE Result(<<node>>, NoPlan, FALSE)

\* what run appends to new_dag for the Delay node i, by pass
Rewrite(p, s, a, d, i) ==
    CASE p = "cdd" -> CddRewrite(s, d, i)
      [] p = "cddpass" -> CddPassRewrite(s, d, i)
      [] p = "udd" -> UddRewrite(s, a, d, i)
      [] p = "uddpass" -> UddPassRewrite(s, a, d, i)
      [] p = "cpmg" -> CpmgRewrite(s, a, d, i)
      [] p = "cpmgpass" -> CpmgPassRewrite(s, a, d, i)
      [] p = "xy4" -> XY4Rewrite(s, d, i)
      [] p = "xy4pass" -> XY4PassRewrite(a, d, i)
      [] OTHER -> NestedRewrite(s, d, i)

----------------------------------------------------------------------------
(* Inputs *)

\* backend_properties: the u3 gate_length of each qubit, in ticks: a pulse
\* lasts one sample on qubit 0 and two samples on qubit 1
GateTables == {[q \in Lanes |-> dt * (1 + q)]}

\* the calibration of test_cpmg.py, where a pulse lasts 320 samples on
\* qubit 0, and a pulse of 340 samples on qubit 1
TestGates == [q \in Lanes |-> dt * (IF q = 0 THEN 320 ELSE 340)]

\* the idle durations of test_cpmg.py, and one cycle
TestDurations == {DefaultTauC, 2500, 7500}

TauCArgs == {None, 3, 9}
TauStepArgs == {1, DefaultTauStep}

\* the arguments as __init__ sees them, and the keywords the caller wrote:
\* a keyword left out has its default
Args(N, tau_c, tau_step, gate_length) ==
    [N |-> N, tau_c |-> tau_c, tau_step |-> tau_step, gate_length |-> gate_length,
     keywords |-> (IF tau_c # None THEN {"tau_c"} ELSE {})
                  \cup (IF tau_step # DefaultTauStep THEN {"tau_step"} ELSE {})]

\* the same call with tau_step written out, also when it is the default
WithTauStep(a) == [a EXCEPT !.keywords = @ \cup {"tau_step"}]

ArgsOf(p) ==
    CASE p = "cdd" ->
           {Args(N, None, t, g) : N \in (-1)..MaxOrder, t \in TauStepArgs, g \in GateTables}
      [] p = "cddpass" ->
           LET plain == UNION {{Args(N, c, t, g) : N \in (-1)..MaxOrder,
                                                   t \in TauStepArgs, g \in GateTables}
                               : c \in TauCArgs}
           IN  plain \cup {WithTauStep(a) : a \in plain}
      [] p \in {"udd", "uddpass"} ->
           {Args(N, c, DefaultTauStep, g) : N \in 1..MaxOrder, c \in TauCArgs, g \in GateTables}
      [] p \in {"cpmg", "cpmgpass"} ->
           {Args(0, c, DefaultTauStep, g) : c \in TauCArgs, g \in GateTables}
           \cup {Args(0, None, DefaultTauStep, TestGates)}
      [] p = "xy4" ->
           {Args(0, None, t, g) : t \in TauStepArgs, g \in GateTables}
      [] p = "xy4pass" ->
           {Args(0, None, DefaultTauStep, g) : g \in GateTables}
      [] p = "ncddpass" ->
           {Args(N, None, DefaultTauStep, g) : N \in (-1)..MaxNestOrder, g \in GateTables}
      [] OTHER ->
           {Args(N, None, DefaultTauStep, g) : N \in 1..MaxNestOrder, g \in GateTables}

\* the cycle duration a Delay on qubit q is compared with
CycleDuration(p, s, q) ==
    CASE p \in {"cdd", "cddpass", "xy4"} -> s.tau_cs[q]
      [] p = "xy4pass" -> XY4TauC
      [] OTHER -> s.tau_c

\* idle durations around the multiples of a cycle duration
DelayDurations(tau_c) ==
    {x \in {c * tau_c + r : c \in 0..MaxCount, r \in {0, 1}} \cup {tau_c - 1} :
        x >= 0}

\* one long idle duration for the passes whose plan adds count * remainder to
\* the time left over: cpmg.py, cpmgpass.py, udd.py, uddpass.py
LongDurations(p, tau_c) ==
    IF p \in {"cpmg", "cpmgpass", "udd", "uddpass"} THEN {LongCount * tau_c} ELSE {}

NestDurations == {k * k : k \in 1..MaxNestDur}

InputDelays(p, s, a) ==
    IF p \in NestedPasses
    THEN {Delay(x, <<q>>) : x \in NestDurations, q \in Lanes}
    ELSE IF a.gate_length = TestGates
    THEN {Delay(x, <<q>>) : x \in TestDurations, q \in Lanes}
    ELSE UNION {{Delay(x, <<q>>) : x \in DelayDurations(CycleDuration(p, s, q))
                                          \cup LongDurations(p, CycleDuration(p, s, q))}
                : q \in Lanes}

\* circuits in which one lane is idle after a CX gate twice
RepeatCircuits ==
    LET cx == Op("cx", <<0, 1>>, <<>>, "none", 0, 0)
    IN  {<<cx, Delay(x, <<q>>), cx, Delay(y, <<q>>)>> :
            x \in NestDurations, y \in NestDurations, q \in Lanes}

\* the circuits given to run
Circuits(p, s, a) ==
    LET ops == InputGates \cup InputDelays(p, s, a)
        n == IF p \in NestedPasses THEN MaxNestOps ELSE MaxOps
    IN  UNION {[1..k -> ops] : k \in 0..n}
        \cup (IF p \in NestedPasses THEN RepeatCircuits ELSE {})

----------------------------------------------------------------------------
(* The passes *)

\* no object yet, and a caller that will construct one from a in argsets and
\* call run n times
Before(argsets, n) ==
    /\ args \in argsets
    /\ self = NoSelf
    /\ pc = "new"
    /\ exception = "none"
    /\ calls = 0
    /\ limit = n
    /\ dag = <<>>
    /\ new_dag = <<>>
    /\ cut = <<>>
    /\ plans = <<>>

Init ==
    /\ pass \in Passes
    /\ Before(ArgsOf(pass), 1)

ConstructSwallowing ==
    /\ pc = "new"
    /\ pc' = "ready"
    /\ exception' = "none"
    /\ self' = IF InitRaises(pass, args) THEN self ELSE InitSelf(pass, args)
    /\ UNCHANGED <<pass, args, calls, limit, dag, new_dag, cut, plans>>

\* __init__
Construct ==
    /\ pc = "new"
    /\ IF InitRaises(pass, args)
       THEN pc' = "raised" /\ exception' = InitError(pass, args) /\ self' = self
       ELSE pc' = "ready" /\ exception' = "none" /\ self' = InitSelf(pass, args)
    /\ UNCHANGED <<pass, args, calls, limit, dag, new_dag, cut, plans>>

CopyUnconditioned(node) ==
    Op(node.name, node.qargs, node.cargs, "none", node.duration, node.half)

\* new_dag.apply_operation_back(node.op, node.qargs, node.cargs, node.condition)
Copy(node) == Op(node.name, node.qargs, node.cargs, node.condition,
                 node.duration, node.half)

NoOutput == [new_dag |-> <<>>, cut |-> <<>>, plans |-> <<>>, raised |-> FALSE]

\* the loop `for node in dag.topological_op_nodes()` from node i on, out
\* being what the iterations before it have built
RECURSIVE Loop(_, _, _, _, _, _)
Loop(p, s, a, d, i, out) ==
    IF out.raised \/ i > Len(d) THEN out
    ELSE IF ~IsDelay(d[i])
    THEN Loop(p, s, a, d, i + 1,
              [out EXCEPT !.new_dag = Append(@, Copy(d[i])),
                          !.cut = Append(@, Len(out.new_dag) + 1),
                          !.plans = Append(@, PlanAt(NoPlan, i))])
    ELSE LET r == Rewrite(p, s, a, d, i)
             ops == out.new_dag \o r.ops
         IN  Loop(p, s, a, d, i + 1,
                  [new_dag |-> ops,
                   cut |-> IF r.raised THEN out.cut ELSE Append(out.cut, Len(ops)),
                   plans |-> Append(out.plans, PlanAt(r.plan, i)),
                   raised |-> r.raised])

\* the circuits given to a call of run after the first
CircuitsAgain(p, s, a) == {d \in Circuits(p, s, a) : Len(d) <= MaxAgainOps}

\* the exception run raises: min(durations) of an empty list in ncddpass.py
\* and nuddpass.py, self.ygate_unroll in cpmg.py
RunError(p) == IF p \in NestedPasses THEN "ValueError" ELSE "AttributeError"

\* run(dag), on a new object or on one that has run before
Run ==
    /\ pc = "ready" \/ (calls > 0 /\ pc \in {"returned", "raised"})
    /\ calls < limit
    /\ calls' = calls + 1
    /\ \E d \in IF calls = 0 THEN Circuits(pass, self, args)
                ELSE CircuitsAgain(pass, self, args) :
          /\ dag' = d
          /\ IF pass \in NestedPasses /\ ScanRaises(d)
             THEN /\ pc' = "raised"
                  /\ exception' = RunError(pass)
                  /\ self' = self
                  /\ new_dag' = <<>> /\ cut' = <<>> /\ plans' = <<>>
             ELSE LET s == IF pass \in NestedPasses THEN Scan(pass, self, d)
                           ELSE self
                      out == Loop(pass, s, args, d, 1, NoOutput)
                  IN  /\ pc' = IF out.raised THEN "raised" ELSE "returned"
                      /\ exception' = IF out.raised THEN RunError(pass) ELSE "none"
                      /\ self' = s
                      /\ new_dag' = out.new_dag
                      /\ cut' = out.cut
                      /\ plans' = out.plans
    /\ UNCHANGED <<pass, args, limit>>

Next == Construct \/ Run

Spec == Init /\ [][Next]_vars

InitCDD == Init /\ pass = "cdd"
SpecCDD == InitCDD /\ [][Next]_vars
InitUDD == Init /\ pass = "udd"
SpecUDD == InitUDD /\ [][Next]_vars
InitCPMG == Init /\ pass \in {"cpmg", "cpmgpass"}
SpecCPMG == InitCPMG /\ [][Next]_vars
InitXY4Pass == Init /\ pass = "xy4pass"
SpecXY4Pass == InitXY4Pass /\ [][Next]_vars
InitNested == Init /\ pass \in NestedPasses
SpecNested == InitNested /\ [][Next]_vars
InitSingle == Init /\ pass \notin NestedPasses
SpecSingle == InitSingle /\ [][Next]_vars
InitFirstIdle == Init /\ pass \in {"cdd", "cpmg", "udd"}
SpecFirstIdle == InitFirstIdle /\ [][Next]_vars
InitFirstOnLane == Init /\ pass \in {"uddpass", "xy4pass"}
SpecFirstOnLane == InitFirstOnLane /\ [][Next]_vars

\* run is called MaxCalls times on one object of ncddpass.py, nuddpass.py or
\* xy4pass.py
InitAgain ==
    /\ pass \in NestedPasses \cup {"xy4pass"}
    /\ Before(ArgsOf(pass), MaxCalls)

SpecAgain == InitAgain /\ [][Next]_vars

\* udd.py and uddpass.py for the orders up to MaxGapOrder and every tau_c up
\* to MaxGapTauC
InitGaps ==
    /\ pass \in {"udd", "uddpass"}
    /\ Before({Args(N, c, DefaultTauStep, g) :
                   N \in 1..MaxGapOrder, c \in 1..MaxGapTauC, g \in GateTables}, 1)

SpecGaps == InitGaps /\ [][Next]_vars

InitRecursive == Init /\ pass \in {"cdd", "cddpass", "ncddpass"}
SpecRecursive == InitRecursive /\ [][Next]_vars

\* the constructors that call build_sequence, for the orders up to MaxBuildOrder
InitBuild ==
    /\ pass \in {"cdd", "cddpass", "ncddpass"}
    /\ Before({[a EXCEPT !.N = n] : a \in ArgsOf(pass), n \in (-1)..MaxBuildOrder}, 1)

SpecBuild == InitBuild /\ [][Construct]_vars

----------------------------------------------------------------------------
(* What run has put in place of each node *)

\* the operations appended for node k of dag
Segment(k) == SubSeq(new_dag, (IF k = 1 THEN 0 ELSE cut[k - 1]) + 1, cut[k])

\* the nodes the loop has dealt with
Done == 1..Len(cut)

\* the native duration of a pulse on qubit q, in the unit of the Delays:
\* samples, and for xy4.py the unit of gate_length itself
PulseDuration(q) ==
    IF pass = "xy4" THEN args.gate_length[q] ELSE args.gate_length[q] \div dt

\* twice the duration of an emitted operation
Twice(op) ==
    IF IsDelay(op) THEN 2 * op.duration + op.half
    ELSE IF op.name \in PulseNames THEN 2 * PulseDuration(op.qargs[1])
    ELSE 0

\* twice the duration of what replaced node k
Emitted(k) ==
    LET seg == Segment(k)
    IN  SumSeq([j \in 1..Len(seg) |-> Twice(seg[j])])

Pulses(k) == Len(SelectSeq(Segment(k), LAMBDA op : op.name \in PulseNames))

\* node k is a Delay of at least tau_c with an operation before it
Expandable(k, tau_c) ==
    IsDelay(dag[k]) /\ dag[k].duration >= tau_c /\ Ancestors(dag, k) > 1

----------------------------------------------------------------------------
(* Claims *)

\* C1: cdd.py, for every order N >= 1, lane and expanded idle period (idle
\* duration >= tau_c of the lane, with a preceding operation): the idles and
\* the pulses emitted in its place last exactly as long as the idle period.
CddConserves ==
    pass = "cdd" =>
        \A k \in Done :
            LET tau_c == self.tau_cs[dag[k].qargs[1]]
            IN  Expandable(k, tau_c) =>
                    /\ Pulses(k) = FloorDiv(dag[k].duration, tau_c)
                                       * Len(self.cdd_sequence)
                    /\ Emitted(k) = 2 * dag[k].duration

\* an idle period of two cycles and an odd remainder has been expanded
CddConservesWitness ==
    /\ pass = "cdd"
    /\ pc = "returned"
    /\ \E k \in Done :
          LET tau_c == self.tau_cs[dag[k].qargs[1]]
          IN  /\ Expandable(k, tau_c)
              /\ dag[k].duration = 2 * tau_c + 1
              /\ self.tau_step_dt % 2 = 0
              /\ Pulses(k) = 2 * Len(self.cdd_sequence)

\* C2: udd.py, for every order N >= 1, every tau_c >= N * pulse duration and
\* every expanded idle period: leading idle + gap idles + Y pulses + trailing
\* idle last exactly as long as the idle period.
UddConserves ==
    pass = "udd" =>
        \A k \in Done :
            (/\ Expandable(k, self.tau_c)
             /\ self.tau_c >= self.N * PulseDuration(dag[k].qargs[1]))
            => /\ Pulses(k) = FloorDiv(dag[k].duration, self.tau_c) * self.N
               /\ Emitted(k) = 2 * dag[k].duration

\* an idle period of two cycles and an odd remainder has been expanded, with
\* a gap schedule whose breakpoints are rounded
UddConservesWitness ==
    /\ pass = "udd"
    /\ pc = "returned"
    /\ \E k \in Done :
          LET q == dag[k].qargs[1]
              T == self.tau_c - self.N * PulseDuration(q)
          IN  /\ Expandable(k, self.tau_c)
              /\ T >= 0
              /\ self.N = 2
              /\ T % 4 # 0
              /\ dag[k].duration = 2 * self.tau_c + 1
              /\ Pulses(k) = 2 * self.N

\* C3: cpmg.py, cpmgpass.py, for every expanded idle period and repetition
\* count: leading idle + count * (T//4 + T//2 + T//4 + 2 * pulse duration)
\* + trailing idle is the idle duration, T = tau_c - 2 * pulse duration;
\* cpmgpass.py emits exactly these operations.
CpmgConserves ==
    pass \in {"cpmg", "cpmgpass"} =>
        \A k \in 1..Len(plans) :
            plans[k].count > 0 =>
                LET q == dag[k].qargs[1]
                    T == self.tau_c - 2 * PulseDuration(q)
                    cycle == FloorDiv(T, 4) + FloorDiv(T, 2) + FloorDiv(T, 4)
                                 + 2 * PulseDuration(q)
                IN  /\ plans[k].new_delay + plans[k].count * cycle
                           + (plans[k].new_delay + plans[k].parity)
                       = dag[k].duration
                    /\ pass = "cpmgpass" =>
                           /\ k \in Done
                           /\ Emitted(k) = 2 * dag[k].duration
                           /\ Pulses(k) = 2 * plans[k].count

\* cpmgpass.py has expanded an idle period of two cycles, T not a multiple of 4
CpmgConservesWitness ==
    /\ pass = "cpmgpass"
    /\ pc = "returned"
    /\ \E k \in Done :
          /\ plans[k].count = 2
          /\ (self.tau_c - 2 * PulseDuration(dag[k].qargs[1])) % 4 # 0
          /\ Pulses(k) = 4

\* C4: xy4pass.py (tau_c = 1461), for every idle period >= tau_c and every
\* repetition count: the emitted idles plus the four pulses of each repetition
\* last exactly as long as the idle period.
XY4PassConserves ==
    pass = "xy4pass" =>
        \A k \in Done :
            (IsDelay(dag[k]) /\ dag[k].duration >= XY4TauC) =>
                Emitted(k) = 2 * dag[k].duration

ShortIdleKept ==
    pass \notin NestedPasses =>
        \A k \in Done :
            (/\ IsDelay(dag[k])
             /\ dag[k].duration < CycleDuration(pass, self, dag[k].qargs[1]))
            => Segment(k) = <<Delay(dag[k].duration, dag[k].qargs)>>

\* cdd.py of order 1 has kept an idle period one sample short of a cycle that
\* follows a gate on its lane
ShortIdleKeptWitness ==
    /\ pass = "cdd"
    /\ pc = "returned"
    /\ self.N = 1
    /\ \E k \in Done :
          /\ IsDelay(dag[k])
          /\ Ancestors(dag, k) > 1
          /\ dag[k].duration = self.tau_cs[dag[k].qargs[1]] - 1
          /\ Segment(k) = <<dag[k]>>

\* no operation other than a Delay comes before node k on its lane
OnlyIdleBefore(k) ==
    \A j \in 1..(k - 1) :
        dag[k].qargs[1] \in Range(dag[j].qargs) => IsDelay(dag[j])

\* C7: in cdd.py, cpmg.py, udd.py, an idle period with no operation other
\* than idle periods before it on its lane is emitted unchanged, however long
\* it is.
FirstIdleKept ==
    pass \in {"cdd", "cpmg", "udd"} =>
        \A k \in 1..Len(plans) :
            (IsDelay(dag[k]) /\ OnlyIdleBefore(k)) =>
                k \in Done /\ Segment(k) = <<dag[k]>>

\* C8: uddpass.py, xy4pass.py leave an idle period that is the first
\* operation on its lane unchanged, even when it lasts a cycle or longer.
FirstOnLaneKept ==
    pass \in {"uddpass", "xy4pass"} =>
        \A k \in Done :
            (IsDelay(dag[k]) /\ Predecessor(dag, k, dag[k].qargs[1]) = 0) =>
                Segment(k) = <<dag[k]>>

\* the operations of a circuit that are not idle periods or pulses
NonIdle(ops) == SelectSeq(ops, LAMBDA op : op \in InputGates)

\* C9: in every pass, the operations of the input other than idle periods are
\* in the output once each, with their qargs, cargs and condition, in the
\* order of the input, which run leaves as it was given.
CopiesOnce ==
    /\ pc = "returned" => Len(cut) = Len(dag)
    /\ pc \in {"returned", "raised"} =>
           NonIdle(new_dag) = NonIdle(SubSeq(dag, 1, Len(cut)))

\* a conditioned measure has been copied in front of an expanded idle period
CopiesOnceWitness ==
    /\ pc = "returned"
    /\ Len(dag) = 2
    /\ dag[1].condition # "none"
    /\ IsDelay(dag[2])
    /\ new_dag[1] = dag[1]
    /\ Pulses(2) > 0

\* C10: build_sequence(1) = [X, Y, X, Y], build_sequence(k) = [X] + S + [Y]
\* + S + [X] + S + [Y] + S with S = build_sequence(k - 1), of length
\* 4 * len(S) + 4: 4, 20, 84, 340, 1364 for k = 1..5, and order 2 is
\* X,X,Y,X,Y,Y,X,Y,X,Y,X,X,Y,X,Y,Y,X,Y,X,Y.
BuildSequenceLaw ==
    pc = "ready" /\ pass \in {"cdd", "cddpass", "ncddpass"} =>
        LET S == self.cdd_sequence
            N == args.N
            X == <<"x">>
            Y == <<"y">>
        IN  /\ N >= 1
            /\ N = 1 => S = X \o Y \o X \o Y
            /\ N > 1 =>
                   LET P == build_sequence(N - 1)
                   IN  /\ S = X \o P \o Y \o P \o X \o P \o Y \o P
                       /\ Len(S) = 4 * Len(P) + 4
            /\ N <= 5 => Len(S) = <<4, 20, 84, 340, 1364>>[N]
            /\ N = 2 => S = X \o X \o Y \o X \o Y \o Y \o X \o Y \o X \o Y
                            \o X \o X \o Y \o X \o Y \o Y \o X \o Y \o X \o Y

\* the constructor of cdd.py has built the sequence of order 5
BuildSequenceLawWitness ==
    /\ pc = "ready"
    /\ pass = "cdd"
    /\ args.N = 5
    /\ Len(self.cdd_sequence) = 1364

CyclePulses ==
    CASE pass \in {"cpmg", "cpmgpass"} -> 2
      [] pass \in {"udd", "uddpass"} -> self.N
      [] OTHER -> 4

\* C12: in the CPMG, UDD and XY4 passes, when the pulses of one cycle on a
\* lane last longer than the cycle duration tau_c, the pass fails instead of
\* emitting a rewritten timeline: no run returns an output in which an idle
\* period of such a lane is expanded.
InsufficientDurationRaises ==
    (/\ pass \in {"cpmg", "cpmgpass", "udd", "uddpass", "xy4", "xy4pass"}
     /\ pc = "returned") =>
        \A k \in Done :
            LET q == dag[k].qargs[1]
            IN  (IsDelay(dag[k]) /\ Pulses(k) > 0) =>
                    CyclePulses * PulseDuration(q) <= CycleDuration(pass, self, q)

\* C13: a call of the constructor of cddpass.py that gives both tau_c and
\* tau_step is rejected at construction, whatever the two values are: it
\* ends with an error and run is never reached.
BothOverridesRejected ==
    (/\ pass = "cddpass"
     /\ {"tau_c", "tau_step"} \subseteq args.keywords
     /\ pc # "new") =>
        pc = "raised" /\ calls = 0

\* what run(d) returns or raises on an object that __init__(a) has just made
FirstRun(p, a, d) ==
    IF p \in NestedPasses /\ ScanRaises(d) THEN [NoOutput EXCEPT !.raised = TRUE]
    ELSE Loop(p, IF p \in NestedPasses THEN Scan(p, InitSelf(p, a), d)
                 ELSE InitSelf(p, a),
              a, d, 1, NoOutput)

\* C14: the output of every call of run depends on its input circuit and the
\* constructor arguments only: it is what the first call on a new object
\* gives for that circuit, whatever the calls before it were given and
\* whether they were feasible.
RunsIndependent ==
    calls > 0 =>
        LET first == FirstRun(pass, args, dag)
        IN  /\ (pc = "raised") = first.raised
            /\ new_dag = first.new_dag

\* an emitted operation as the claims name it: Idle(duration) or Pulse(Y),
\* whether the Y gate was unrolled or not
Shape(op) ==
    IF IsDelay(op) THEN <<"Idle", op.duration>>
    ELSE IF op.name \in {YGate, Unroll(YGate)} THEN <<"Pulse", "Y">>
    ELSE <<"Pulse", op.name>>

Shapes(ops) == [j \in 1..Len(ops) |-> Shape(ops[j])]

Idle(n) == <<"Idle", n>>
PulseY == <<"Pulse", "Y">>

\* one repetition of CPMG for the idle budget T
CpmgCycle(T) ==
    <<Idle(FloorDiv(T, 4)), PulseY, Idle(FloorDiv(T, 2)), PulseY,
      Idle(FloorDiv(T, 4))>>

\* C15: cpmg.py, cpmgpass.py put, in place of an idle period d >= tau_c that
\* follows an operation, Idle(lead), then floor(d / tau_c) repetitions of
\* Idle(T//4), Y, Idle(T//2), Y, Idle(T//4) with T = tau_c - 2 * pulse
\* duration, then Idle(trail), on the lane of the idle period; with tau_c =
\* 2000 and a pulse of 320, d = 2500 gives 250 | 340, Y, 680, Y, 340 | 250
\* and d = 7500 gives 750 | three repetitions | 750.
CpmgEmits ==
    (pass \in {"cpmg", "cpmgpass"} /\ calls > 0) =>
        \A k \in 1..Len(dag) :
            Expandable(k, self.tau_c) =>
                LET q == dag[k].qargs[1]
                    d == dag[k].duration
                    T == self.tau_c - 2 * PulseDuration(q)
                    count == FloorDiv(d, self.tau_c)
                    seg == Segment(k)
                    n == Len(seg)
                IN  /\ k \in Done
                    /\ n = 5 * count + 2
                    /\ \A j \in 1..n : seg[j].qargs = dag[k].qargs
                    /\ IsDelay(seg[1]) /\ IsDelay(seg[n])
                    /\ Shapes(SubSeq(seg, 2, n - 1)) = Rep(count, CpmgCycle(T))
                    /\ (self.tau_c = 2000 /\ PulseDuration(q) = 320 /\ d = 2500) =>
                           Shapes(seg) = <<Idle(250), Idle(340), PulseY, Idle(680),
                                           PulseY, Idle(340), Idle(250)>>
                    /\ (self.tau_c = 2000 /\ PulseDuration(q) = 320 /\ d = 7500) =>
                           Shapes(seg) = <<Idle(750)>>
                               \o Rep(3, <<Idle(340), PulseY, Idle(680), PulseY,
                                           Idle(340)>>)
                               \o <<Idle(750)>>

\* node k is the idle period of the scenario: 2000 samples after an operation,
\* on a lane whose pulse lasts 340 samples, with the default tau_c of 2000
Scenario2000(k) ==
    /\ self.tau_c = DefaultTauC
    /\ Expandable(k, self.tau_c)
    /\ ~IsDelay(dag[Predecessor(dag, k, dag[k].qargs[1])])
    /\ dag[k].duration = 2000
    /\ PulseDuration(dag[k].qargs[1]) = 340

AfterCX(k) ==
    LET p == Predecessor(dag, k, dag[k].qargs[1])
    IN  p # 0 /\ dag[p].name = "cx"

\* C17: ncddpass.py, nuddpass.py replace an idle period only if an operation
\* precedes it and the operation right before it on its lane is a CX gate;
\* every other idle period is in the output unchanged.
OnlyAfterCX ==
    (pass \in NestedPasses /\ pc = "returned") =>
        \A k \in Done :
            (IsDelay(dag[k]) /\ ~AfterCX(k)) => Segment(k) = <<dag[k]>>

\* an idle period after a CX gate has been replaced by a sequence with
\* pulses, and the idle period that follows it on the lane has been kept
OnlyAfterCXWitness ==
    /\ pass \in NestedPasses
    /\ pc = "returned"
    /\ \E j, k \in Done :
          /\ IsDelay(dag[j]) /\ AfterCX(j) /\ Pulses(j) > 0
          /\ IsDelay(dag[k]) /\ Predecessor(dag, k, dag[k].qargs[1]) = j
          /\ Segment(k) = <<dag[k]>>

\* the smallest of the durations run records for the qualifying idle periods
MinQualifying ==
    LET nodes == QualifyingNodes(dag)
    IN  MinSeq([k \in 1..Len(nodes) |-> ScanDuration(dag, nodes[k])])

\* C18: ncddpass.py, nuddpass.py compute the sequence from the smallest of
\* the qualifying idle durations, and every qualifying lane receives the same
\* plan: the idle periods that are replaced get the same pulses and the same
\* gap durations, those of the sequence for the smallest duration.
SamePlan ==
    (pass \in NestedPasses /\ pc = "returned" /\ self.doable) =>
        LET nodes == QualifyingNodes(dag)
            first == dag[nodes[1]].qargs[1]
            plan == Shapes(find(pass, self, first, MinQualifying))
        IN  \A j \in 1..Len(nodes) : Shapes(Segment(nodes[j])) = plan

\* the lanes of the qualifying idle periods, in the order run finds them
QualifyingLanes ==
    LET nodes == QualifyingNodes(dag)
    IN  [k \in 1..Len(nodes) |-> dag[nodes[k]].qargs[1]]

\* C19: ncddpass.py, nuddpass.py: if at some nesting level the duration
\* available is smaller than the total pulse duration of the lane of that
\* level, the flag doable is cleared and no idle period is rewritten: the
\* output is the input, every idle period with its own duration.
InfeasibleAbandoned ==
    (/\ pass \in NestedPasses
     /\ pc = "returned"
     /\ Undoable(pass, self, QualifyingLanes, MinQualifying)) =>
        /\ ~self.doable
        /\ \A k \in Done : Segment(k) = <<dag[k]>>

\* the smallest duration holds the pulses of the first lane, a gap of the
\* first sequence does not hold those of the second lane, and run has
\* returned the circuit as it was
InfeasibleAbandonedWitness ==
    /\ pass \in NestedPasses
    /\ pc = "returned"
    /\ Len(QualifyingLanes) = 2
    /\ MinQualifying >= self.gate_length_totals[QualifyingLanes[1]]
    /\ Undoable(pass, self, QualifyingLanes, MinQualifying)
    /\ ~self.doable
    /\ new_dag = dag

\* idle times that follow one another counted as one, idle times of 0 left out
RECURSIVE Merged(_)
Merged(xs) ==
    IF xs = <<>> THEN <<>>
    ELSE IF Head(xs) = Idle(0) THEN Merged(Tail(xs))
    ELSE IF Len(xs) > 1 /\ Head(xs)[1] = "Idle" /\ xs[2][1] = "Idle"
    THEN Merged(<<Idle(Head(xs)[2] + xs[2][2])>> \o Tail(Tail(xs)))
    ELSE <<Head(xs)>> \o Merged(Tail(xs))

\* the pulses of an output and the idle times between them
Timeline(ops) == Merged(Shapes(ops))

\* what CPMGPass of file p, constructed with the same tau_c and the same
\* calibration, gives for the circuit d
CpmgFor(p, a, d) == FirstRun(p, [a EXCEPT !.N = 0], d)

\* C20: udd.py, uddpass.py against cpmg.py, cpmgpass.py: UDDPass with N = 2
\* and CPMGPass with the same tau_c and the same calibration give the same
\* output for every input circuit: the same pulses with the same idle times
\* between them (consecutive delays count as one idle time, and a pulse and
\* its unrolled form as the same pulse).
UddTwoIsCpmg ==
    (pass \in {"udd", "uddpass"} /\ args.N = 2 /\ calls > 0) =>
        \E p \in {"cpmg", "cpmgpass"} :
            LET out == CpmgFor(p, args, dag)
            IN  /\ out.raised = (pc = "raised")
                /\ Timeline(out.new_dag) = Timeline(new_dag)

\* C21: ncddpass.py, nuddpass.py: when no idle period of the input qualifies
\* (none follows a CX gate, or the circuit has no idle period), run returns
\* a circuit with the operations of the input and raises no error.
NoQualifyingUnchanged ==
    (pass \in NestedPasses /\ calls > 0 /\ QualifyingNodes(dag) = <<>>) =>
        /\ pc = "returned"
        /\ exception = "none"
        /\ new_dag = dag

\* run has put something else than the idle period itself in place of the
\* Delay node k, or has failed while doing so
Expanded(k) ==
    /\ IsDelay(dag[k])
    /\ k \in Done => Segment(k) # <<dag[k]>>

\* the pulses of one repetition of the sequence of the pass
SequencePulses ==
    CASE pass \in {"cdd", "cddpass"} -> Len(self.cdd_sequence)
      [] pass \in {"cpmg", "cpmgpass"} -> 2
      [] pass \in {"udd", "uddpass"} -> self.N
      [] OTHER -> 4

\* C22: cdd.py, cddpass.py, cpmg.py, cpmgpass.py, udd.py, uddpass.py, xy4.py,
\* xy4pass.py: whenever an idle period of duration d is expanded on a lane
\* with cycle duration tau_c, the number of repetitions is floor(d / tau_c)
\* and at least 1, the output holds that many repetitions of the pulses of
\* the sequence, and tau_c is never larger than d.
RepetitionsFloor ==
    pass \notin NestedPasses =>
        \A k \in 1..Len(plans) :
            Expanded(k) =>
                LET tau_c == CycleDuration(pass, self, dag[k].qargs[1])
                    d == dag[k].duration
                    count == plans[k].count
                IN  /\ tau_c <= d
                    /\ count >= 1
                    /\ count * tau_c <= d /\ d < (count + 1) * tau_c
                    /\ k \in Done => Pulses(k) = count * SequencePulses

\* udd.py has expanded an idle period of two cycles and one sample into two
\* repetitions
RepetitionsFloorWitness ==
    /\ pass = "udd"
    /\ pc = "returned"
    /\ \E k \in Done :
          /\ Expanded(k)
          /\ dag[k].duration = 2 * self.tau_c + 1
          /\ plans[k].count = 2
          /\ Pulses(k) = 2 * self.N

IsPulse(op) == op.name \in PulseNames

\* the idles between the start of a repetition and its first pulse: none in
\* cdd.py, one gap in the CPMG and UDD files
EndGaps == IF pass = "cdd" THEN 0 ELSE 1

\* seg is a leading idle or none, the repetitions from their first idles and
\* first pulse to their last pulse and last idles, and a trailing idle or none
EndsShaped(seg) ==
    LET n == Len(seg)
    IN  /\ n > EndGaps
        /\ \/ IsPulse(seg[EndGaps + 1]) /\ \A j \in 1..EndGaps : IsDelay(seg[j])
           \/ /\ n > EndGaps + 1
              /\ IsPulse(seg[EndGaps + 2])
              /\ \A j \in 1..(EndGaps + 1) : IsDelay(seg[j])
        /\ \/ IsPulse(seg[n - EndGaps])
              /\ \A j \in (n - EndGaps + 1)..n : IsDelay(seg[j])
           \/ /\ n > EndGaps + 1
              /\ IsPulse(seg[n - EndGaps - 1])
              /\ \A j \in (n - EndGaps)..n : IsDelay(seg[j])

\* the leading idle of seg: the Delay in front of the repetitions, 0 when
\* there is none
LeadingIdle(seg) == IF IsPulse(seg[EndGaps + 1]) THEN 0 ELSE seg[1].duration

\* the trailing idle of seg, 0 when there is none
TrailingIdle(seg) ==
    IF IsPulse(seg[Len(seg) - EndGaps]) THEN 0 ELSE seg[Len(seg)].duration

\* C23: cdd.py, cpmg.py, cpmgpass.py, udd.py, uddpass.py, for every expanded
\* idle period: trailing idle = leading idle + p with p = 0 or 1, the parity
\* of the time left over by the repetitions; the odd sample goes to the
\* trailing idle and the leading idle is never the longer one.
ParityTrails ==
    pass \in {"cdd", "cpmg", "cpmgpass", "udd", "uddpass"} =>
        \A k \in 1..Len(plans) :
            Expanded(k) =>
                /\ plans[k].parity \in {0, 1}
                /\ plans[k].new_delay >= 0
                /\ k \in Done =>
                       LET seg == Segment(k)
                           lead == LeadingIdle(seg)
                           trail == TrailingIdle(seg)
                       IN  /\ EndsShaped(seg)
                           /\ lead = plans[k].new_delay
                           /\ trail = lead + plans[k].parity
                           /\ trail - lead = (lead + trail) % 2

\* cdd.py has expanded an idle period whose left-over time is odd: the
\* trailing idle is one sample longer than the leading idle
ParityTrailsWitness ==
    /\ pass = "cdd"
    /\ pc = "returned"
    /\ \E k \in Done :
          /\ Expanded(k)
          /\ LeadingIdle(Segment(k)) > 0
          /\ TrailingIdle(Segment(k)) = LeadingIdle(Segment(k)) + 1

\* C24: no pass emits an idle of duration 0 as part of an expansion: a
\* leading idle, a trailing idle or a gap between pulses whose length is 0
\* is left out of the output.
NoZeroIdle ==
    \A k \in Done :
        Expanded(k) =>
            \A j \in 1..Len(Segment(k)) :
                IsDelay(Segment(k)[j]) => Twice(Segment(k)[j]) # 0

\* C25: every idle a pass emits has a duration >= 0; in particular the
\* leading and the trailing idle of an expanded idle period are >= 0 whenever
\* the idle duration is at least the cycle duration, an exact multiple of
\* the cycle duration included.
IdlesNonNegative ==
    \A j \in 1..Len(new_dag) : IsDelay(new_dag[j]) => Twice(new_dag[j]) >= 0

\* the repetitions in seg, without the leading and the trailing idle
Repetitions(seg) ==
    SubSeq(seg, IF IsPulse(seg[EndGaps + 1]) THEN 1 ELSE 2,
                IF IsPulse(seg[Len(seg) - EndGaps]) THEN Len(seg) ELSE Len(seg) - 1)

\* C26: udd.py, for every order N >= 1 and every idle budget T = tau_c - N *
\* pulse duration >= 0: each repetition emitted has N + 1 gaps that separate
\* N Y pulses, every gap is >= 0 and the gaps add up to T exactly, so the
\* remainder carried into the leading and trailing idle is 0.
UddGapsFill ==
    pass = "udd" =>
        \A k \in Done :
            LET T == self.tau_c - self.N * PulseDuration(dag[k].qargs[1])
                N == self.N
            IN  (Expanded(k) /\ T >= 0) =>
                    LET body == Repetitions(Segment(k))
                        count == plans[k].count
                        gap(r, i) == body[(r - 1) * (2 * N + 1) + 2 * i - 1]
                    IN  /\ plans[k].remainder = 0
                        /\ Len(body) = count * (2 * N + 1)
                        /\ \A r \in 1..count :
                              /\ \A i \in 1..(N + 1) :
                                     IsDelay(gap(r, i)) /\ gap(r, i).duration >= 0
                              /\ \A i \in 1..N :
                                     Shape(body[(r - 1) * (2 * N + 1) + 2 * i]) = PulseY
                              /\ SumSeq([i \in 1..(N + 1) |-> gap(r, i).duration]) = T

\* udd.py of order 3 has expanded an idle period of two cycles whose budget T
\* is not a multiple of 8, so that the breakpoints are rounded
UddGapsFillWitness ==
    /\ pass = "udd"
    /\ pc = "returned"
    /\ self.N = 3
    /\ \E k \in Done :
          LET T == self.tau_c - 3 * PulseDuration(dag[k].qargs[1])
          IN  /\ Expanded(k)
              /\ T > 0 /\ T % 8 # 0
              /\ plans[k].count = 2
              /\ Len(Repetitions(Segment(k))) = 14

\* C27: udd.py, uddpass.py, for the even orders N = 2 and N = 4 and every
\* idle budget T >= 0: the rounded gaps of a repetition are symmetric front
\* to back, gap i = gap N + 2 - i for i = 1..N + 1.
UddGapsSymmetric ==
    (pass \in {"udd", "uddpass"} /\ self.N \in {2, 4}) =>
        \A k \in Done :
            LET T == self.tau_c - self.N * PulseDuration(dag[k].qargs[1])
                N == self.N
            IN  (Expanded(k) /\ T >= 0) =>
                    LET body == Repetitions(Segment(k))
                        gap(r, i) == body[(r - 1) * (2 * N + 1) + 2 * i - 1]
                    IN  \A r \in 1..plans[k].count : \A i \in 1..(N + 1) :
                            gap(r, i).duration = gap(r, N + 2 - i).duration

\* C28: cddpass.py constructed with the cycle duration tau_c given: for every
\* expanded idle period, the idles and the pulses emitted in its place last
\* exactly as long as the idle period, whatever tau_c and the order are.
CddPassOverrideConserves ==
    (pass = "cddpass" /\ args.tau_c # None) =>
        \A k \in Done : Expanded(k) => Emitted(k) = 2 * dag[k].duration

\* the lanes of seq, each once, in the order of their first place in seq
RECURSIVE Distinct(_)
Distinct(seq) ==
    IF seq = <<>> THEN <<>>
    ELSE LET rest == Distinct(SubSeq(seq, 1, Len(seq) - 1))
         IN  IF seq[Len(seq)] \in Range(rest) THEN rest
             ELSE Append(rest, seq[Len(seq)])

\* the sequence of lane q fitted into each gap of the sequence above, in order
FittedInto(above, q) ==
    LET gaps == SelectSeq(above, IsDelay)
    IN  Flatten([k \in 1..Len(gaps) |-> find(pass, self, q, gaps[k].duration)], 1)

\* C29: ncddpass.py, nuddpass.py nest as deep as there are coupled lanes and
\* give each lane one nesting level: the first lane stores the sequence for
\* the smallest duration, the lane at level k stores only sequences fitted
\* into the gaps of the sequence of the lane at level k - 1, and a lane with
\* no level stores nothing, also when a lane has more than one qualifying
\* idle period.  Stated for the first run of an object.
OneLevelPerLane ==
    (pass \in NestedPasses /\ calls = 1 /\ pc = "returned") =>
        LET lanes == Distinct(QualifyingLanes)
            top == find(pass, self, lanes[1], MinQualifying)
        IN  /\ self.ncdd[lanes[1]] = top
            /\ Len(lanes) > 1 => self.ncdd[lanes[2]] = FittedInto(top, lanes[2])
            /\ \A q \in Lanes \ Range(lanes) : self.ncdd[q] = <<>>

\* the pulses of one repetition last no longer than the cycle, on every lane
\* that holds an idle period
PulsesFit ==
    \A k \in 1..Len(dag) :
        IsDelay(dag[k]) =>
            SequencePulses * PulseDuration(dag[k].qargs[1])
                <= CycleDuration(pass, self, dag[k].qargs[1])

\* what run of the same object gives for its own output
SecondRun == Loop(pass, self, args, new_dag, 1, NoOutput)

\* C30: cdd.py, cpmg.py, cpmgpass.py, udd.py, uddpass.py: applying the pass
\* to its own output changes nothing: provided the pulses of one cycle fit
\* in tau_c, every idle emitted for an expanded idle period (leading idle,
\* trailing idle, gaps) is strictly shorter than the cycle duration of the
\* lane, and the second run returns its input.
SecondRunUnchanged ==
    (/\ pass \in {"cdd", "cpmg", "cpmgpass", "udd", "uddpass"}
     /\ pc = "returned"
     /\ PulsesFit) =>
        /\ \A k \in Done :
               Expanded(k) =>
                   \A j \in 1..Len(Segment(k)) :
                       IsDelay(Segment(k)[j]) =>
                           Segment(k)[j].duration
                               < CycleDuration(pass, self, dag[k].qargs[1])
        /\ ~SecondRun.raised
        /\ SecondRun.new_dag = new_dag

====
